---------------------------- MODULE Spec2Model ----------------------------
(***************************************************************************)
(* Model of python3/cloudwatch/src/lambda_function.py: the CloudWatch      *)
(* Logs -> Logz.io forwarding lambda.  Python strings are sequences of     *)
(* one-character strings, Python dicts are functions whose domain is a set *)
(* of such sequences, and every Python value carries its type in a tag.    *)
(***************************************************************************)
EXTENDS Integers, Sequences, FiniteSets, TLC

VARIABLES
    environ,        \* os.environ: the names FORMAT, ENRICH, TYPE that are set
    hashSeed,       \* the process-wide seed of Python's str hash
    payload,        \* event['awslogs']['data']: how far it decodes, and to what
    aws_logs_data,  \* lambda_handler's local: the decoded document
    additional_data,\* lambda_handler's local: the enrichment dict
    idx,            \* position of the for loop in logEvents (1-based)
    log,            \* the logEvents entry being processed, mutated in place
    pc,             \* position of the invocation in the code
    raised,         \* the exception that left lambda_handler, or "none"
    shipper         \* the calls made on the LogzioShipper, in order

vars == <<environ, hashSeed, payload, aws_logs_data, additional_data, idx, log,
          pc, raised, shipper>>

----------------------------------------------------------------------------
(* Characters and strings *)

TAB == "\t"
QUOTE == "\""

UpperCase == <<"A","B","C","D","E","F","G","H","I","J","K","L","M",
               "N","O","P","Q","R","S","T","U","V","W","X","Y","Z">>
LowerCase == <<"a","b","c","d","e","f","g","h","i","j","k","l","m",
               "n","o","p","q","r","s","t","u","v","w","x","y","z">>
Digits == <<"0","1","2","3","4","5","6","7","8","9">>

Range(s) == {s[k] : k \in DOMAIN s}

DigitChars == Range(Digits)
UpperChars == Range(UpperCase)
WordChars == Range(UpperCase) \cup Range(LowerCase) \cup Range(Digits) \cup {"_"}

IsDigit(c) == c \in DigitChars

\* \w of the re module on str patterns: letters, digits and the underscore
IsWord(c) == c \in WordChars

\* str.lower() on one character
LowerChar(c) ==
    IF c \in UpperChars
    THEN LowerCase[CHOOSE k \in DOMAIN UpperCase : UpperCase[k] = c]
    ELSE c

\* str.lower()
Lower(s) == [k \in DOMAIN s |-> LowerChar(s[k])]

\* s[from:] with a 0-based Python offset (empty when the offset is past the end)
Slice(s, from) == IF from >= Len(s) THEN <<>> ELSE SubSeq(s, from + 1, Len(s))

\* s[from:to] with 0-based Python offsets, 0 <= from, 0 <= to
SliceTo(s, from, to) ==
    IF from >= to \/ from >= Len(s) THEN <<>>
    ELSE SubSeq(s, from + 1, IF to > Len(s) THEN Len(s) ELSE to)

\* str.startswith(prefix)
StartsWith(s, prefix) ==
    /\ Len(prefix) <= Len(s)
    /\ SubSeq(s, 1, Len(prefix)) = prefix

\* needle in s
Contains(s, needle) ==
    \E k \in 0..(Len(s) - Len(needle)) : SubSeq(s, k + 1, k + Len(needle)) = needle

\* str.index(c) as a 0-based offset, or -1 where Python raises ValueError
IndexOf(s, c) ==
    IF \E k \in DOMAIN s : s[k] = c
    THEN (CHOOSE k \in DOMAIN s : s[k] = c /\ \A j \in 1..(k - 1) : s[j] # c) - 1
    ELSE -1

\* str.split(sep) for a one-character separator: scans left to right
RECURSIVE SplitFrom(_, _, _, _)
SplitFrom(s, sep, k, cur) ==
    IF k > Len(s) THEN <<cur>>
    ELSE IF s[k] = sep THEN <<cur>> \o SplitFrom(s, sep, k + 1, <<>>)
    ELSE SplitFrom(s, sep, k + 1, Append(cur, s[k]))

Split(s, sep) == SplitFrom(s, sep, 1, <<>>)

\* str(n) for an int: decimal digits, with a leading "-" below zero
RECURSIVE NatToStr(_)
NatToStr(n) ==
    IF n < 10 THEN <<Digits[n + 1]>>
    ELSE Append(NatToStr(n \div 10), Digits[(n % 10) + 1])

IntToStr(n) == IF n < 0 THEN <<"-">> \o NatToStr(0 - n) ELSE NatToStr(n)

----------------------------------------------------------------------------
(* Python values and dicts *)

StrVal(s) == [t |-> "str", v |-> s]
IntVal(n) == [t |-> "int", v |-> n]
FloatVal(s) == [t |-> "float", v |-> s]       \* a float, kept as its literal
ListVal(l) == [t |-> "list", v |-> l]
DictVal(d) == [t |-> "dict", v |-> d]
ConstVal(name) == [t |-> "const", v |-> name] \* true, false, null, NaN, ...

EmptyDict == [k \in {} |-> StrVal(<<>>)]

\* str(x) for the values a message or a timestamp can hold
PyStr(x) == IF x.t = "int" THEN IntToStr(x.v) ELSE x.v

\* d[k] = v
Put(d, k, v) == [x \in (DOMAIN d) \cup {k} |-> IF x = k THEN v ELSE d[x]]

\* del d[k], for a key that is present
Del(d, k) == [x \in (DOMAIN d) \ {k} |-> d[x]]

\* d.update(e)
Update(d, e) == [x \in (DOMAIN d) \cup (DOMAIN e) |-> IF x \in DOMAIN e THEN e[x] ELSE d[x]]

----------------------------------------------------------------------------
(* Module constants *)

KEY_INDEX == 0
VALUE_INDEX == 1
PYTHON_EVENT_SIZE == 3
NODEJS_EVENT_SIZE == 4

LOG_LEVELS ==
    { <<"a","l","e","r","t">>, <<"t","r","a","c","e">>, <<"d","e","b","u","g">>,
      <<"n","o","t","i","c","e">>, <<"i","n","f","o">>, <<"w","a","r","n">>,
      <<"w","a","r","n","i","n","g">>, <<"e","r","r","o","r">>, <<"e","r","r">>,
      <<"c","r","i","t","i","c","a","l">>, <<"c","r","i","t">>,
      <<"f","a","t","a","l">>, <<"s","e","v","e","r","e">>, <<"e","m","e","r","g">>,
      <<"e","m","e","r","g","e","n","c","y">> }

LAMBDA_LOG_GROUP == <<"/","a","w","s","/","l","a","m","b","d","a","/">>

DEFAULT_TYPE ==
    <<"l","o","g","z","i","o","_","c","l","o","u","d","w","a","t","c","h","_",
      "l","a","m","b","d","a">>

\* The dict keys and the literals the code names
K_message == <<"m","e","s","s","a","g","e">>
K_timestamp == <<"t","i","m","e","s","t","a","m","p">>
K_at_timestamp == <<"@","t","i","m","e","s","t","a","m","p">>
K_id == <<"i","d">>
K_log_level == <<"l","o","g","_","l","e","v","e","l">>
K_requestID == <<"r","e","q","u","e","s","t","I","D">>
K_service == <<"s","e","r","v","i","c","e">>
K_logger_name == <<"l","o","g","g","e","r","_","n","a","m","e">>
K_type == <<"t","y","p","e">>
S_json == <<"j","s","o","n">>
S_START == <<"S","T","A","R","T">>
S_END == <<"E","N","D">>
S_REPORT == <<"R","E","P","O","R","T">>

\* What a function hands back: the exception it raised ("none": it returned)
\* and the dict it worked on as it stands then.
Returned(d) == [exc |-> "none", log |-> d]
Raised(e, d) == [exc |-> e, log |-> d]

----------------------------------------------------------------------------
(* _extract_lambda_log_message *)

\* Mutant of ExtractLambdaLogMessage: the split starts right after the bracket
ExtractLambdaLogMessage_off(l) ==
    LET str_message == PyStr(l[K_message])
        start_level == IndexOf(str_message, "[")
        end_level == IndexOf(str_message, "]")
        found == start_level >= 0 /\ end_level >= 0
        log_level == SliceTo(str_message, start_level + 1, end_level)
        is_level == found /\ Lower(log_level) \in LOG_LEVELS
        l1 == IF is_level THEN Put(l, K_log_level, StrVal(log_level)) ELSE l
        start_split == IF is_level THEN end_level + 1 ELSE 0
        message_parts == Split(Slice(str_message, start_split), TAB)
        size == Len(message_parts)
        l2 == IF size = PYTHON_EVENT_SIZE \/ size = NODEJS_EVENT_SIZE
              THEN Put(Put(Put(l1, K_at_timestamp, StrVal(message_parts[1])),
                           K_requestID, StrVal(message_parts[2])),
                       K_message, StrVal(message_parts[size]))
              ELSE l1
    IN  IF size = NODEJS_EVENT_SIZE
        THEN Put(l2, K_log_level, StrVal(message_parts[3]))
        ELSE l2

ExtractLambdaLogMessage(l) ==
    LET str_message == PyStr(l[K_message])
        start_level == IndexOf(str_message, "[")
        end_level == IndexOf(str_message, "]")
        found == start_level >= 0 /\ end_level >= 0
        log_level == SliceTo(str_message, start_level + 1, end_level)
        is_level == found /\ Lower(log_level) \in LOG_LEVELS
        l1 == IF is_level THEN Put(l, K_log_level, StrVal(log_level)) ELSE l
        start_split == IF is_level THEN end_level + 2 ELSE 0
        message_parts == Split(Slice(str_message, start_split), TAB)
        size == Len(message_parts)
        l2 == IF size = PYTHON_EVENT_SIZE \/ size = NODEJS_EVENT_SIZE
              THEN Put(Put(Put(l1, K_at_timestamp, StrVal(message_parts[1])),
                           K_requestID, StrVal(message_parts[2])),
                       K_message, StrVal(message_parts[size]))
              ELSE l1
    IN  IF size = NODEJS_EVENT_SIZE
        THEN Put(l2, K_log_level, StrVal(message_parts[3]))
        ELSE l2

----------------------------------------------------------------------------
(* _add_timestamp *)

\* Mutant of AddTimestamp: the raw timestamp key is left in place
AddTimestamp_keeps(l) ==
    IF K_at_timestamp \in DOMAIN l THEN Returned(l)
    ELSE IF K_timestamp \notin DOMAIN l THEN Raised("KeyError", l)
    ELSE Returned(Put(l, K_at_timestamp, StrVal(PyStr(l[K_timestamp]))))

AddTimestamp(l) ==
    IF K_at_timestamp \in DOMAIN l THEN Returned(l)
    ELSE IF K_timestamp \notin DOMAIN l THEN Raised("KeyError", l)
    ELSE Returned(Del(Put(l, K_at_timestamp, StrVal(PyStr(l[K_timestamp]))),
                      K_timestamp))

----------------------------------------------------------------------------
(* _is_valid_log *)

IsValidLog(l) ==
    LET message == l[K_message].v
        is_info_log == \/ StartsWith(message, S_START)
                       \/ StartsWith(message, S_END)
                       \/ StartsWith(message, S_REPORT)
    IN  ~is_info_log

----------------------------------------------------------------------------
(* json.loads, for documents without backslash escapes *)

IsWs(c) == c \in {" ", TAB, "\n", "\r"}

\* Control characters a strict JSON string may not hold
IsControl(c) == c \in {TAB, "\n", "\r"}

\* First position at or after k that holds no whitespace (Len(s) + 1: none)
SkipWs(s, k) ==
    CHOOSE j \in k..(Len(s) + 1) :
        /\ \A m \in k..(j - 1) : IsWs(s[m])
        /\ (j > Len(s) \/ ~IsWs(s[j]))

\* First position at or after k that holds no digit
DigitsEnd(s, k) ==
    CHOOSE j \in k..(Len(s) + 1) :
        /\ \A m \in k..(j - 1) : IsDigit(s[m])
        /\ (j > Len(s) \/ ~IsDigit(s[j]))

DigitVal(c) == (CHOOSE k \in DOMAIN Digits : Digits[k] = c) - 1

RECURSIVE StrToNat(_)
StrToNat(ds) ==
    IF ds = <<>> THEN 0
    ELSE StrToNat(SubSeq(ds, 1, Len(ds) - 1)) * 10 + DigitVal(ds[Len(ds)])

StartsWithAt(s, k, word) ==
    /\ k + Len(word) - 1 <= Len(s)
    /\ SubSeq(s, k, k + Len(word) - 1) = word

\* A parse: whether it succeeded, the value, and the position after it
Fail == [ok |-> FALSE, val |-> ConstVal("none"), pos |-> 0]
Ok(v, p) == [ok |-> TRUE, val |-> v, pos |-> p]

\* A string whose opening quote is at k
ParseString(s, k) ==
    LET closes == {j \in (k + 1)..Len(s) : s[j] = QUOTE}
    IN  IF closes = {} THEN Fail
        ELSE LET j == CHOOSE c \in closes : \A m \in closes : c <= m
                 body == SubSeq(s, k + 1, j - 1)
             IN  IF \E c \in Range(body) : IsControl(c) THEN Fail
                 ELSE Ok(StrVal(body), j + 1)

\* NUMBER_RE at k: -?(0|[1-9]\d*)(\.\d+)?([eE][-+]?\d+)?
ParseNumber(s, k) ==
    LET neg == s[k] = "-"
        d0 == IF neg THEN k + 1 ELSE k
        has_int == d0 <= Len(s) /\ IsDigit(s[d0])
        int_end == IF s[d0] = "0" THEN d0 + 1 ELSE DigitsEnd(s, d0)
        has_frac == /\ int_end + 1 <= Len(s)
                    /\ s[int_end] = "."
                    /\ IsDigit(s[int_end + 1])
        frac_end == IF has_frac THEN DigitsEnd(s, int_end + 1) ELSE int_end
        signed == /\ frac_end + 1 <= Len(s)
                  /\ s[frac_end + 1] \in {"-", "+"}
        exp_at == IF signed THEN frac_end + 2 ELSE frac_end + 1
        has_exp == /\ frac_end <= Len(s)
                   /\ s[frac_end] \in {"e", "E"}
                   /\ exp_at <= Len(s)
                   /\ IsDigit(s[exp_at])
        num_end == IF has_exp THEN DigitsEnd(s, exp_at) ELSE frac_end
        magnitude == StrToNat(SubSeq(s, d0, int_end - 1))
    IN  IF ~has_int THEN Fail
        ELSE IF has_frac \/ has_exp
        THEN Ok(FloatVal(SubSeq(s, k, num_end - 1)), num_end)
        ELSE Ok(IntVal(IF neg THEN 0 - magnitude ELSE magnitude), num_end)

JSON_CONSTANTS ==
    { <<"n","u","l","l">>, <<"t","r","u","e">>, <<"f","a","l","s","e">>,
      <<"N","a","N">>, <<"I","n","f","i","n","i","t","y">>,
      <<"-","I","n","f","i","n","i","t","y">> }

RECURSIVE ParseValue(_, _)
RECURSIVE ParseMembers(_, _, _)
RECURSIVE ParseElements(_, _, _)

\* The pairs of an object, from the opening quote of a key at k
ParseMembers(s, k, acc) ==
    IF k > Len(s) \/ s[k] # QUOTE THEN Fail
    ELSE LET key == ParseString(s, k)
         IN  IF ~key.ok THEN Fail
             ELSE LET colon == SkipWs(s, key.pos)
                  IN  IF colon > Len(s) \/ s[colon] # ":" THEN Fail
                      ELSE LET val == ParseValue(s, SkipWs(s, colon + 1))
                           IN  IF ~val.ok THEN Fail
                               ELSE LET e == SkipWs(s, val.pos)
                                        acc2 == Put(acc, key.val.v, val.val)
                                    IN  IF e > Len(s) THEN Fail
                                        ELSE IF s[e] = "}" THEN Ok(DictVal(acc2), e + 1)
                                        ELSE IF s[e] = ","
                                        THEN ParseMembers(s, SkipWs(s, e + 1), acc2)
                                        ELSE Fail

\* The items of an array, from the first character of an item at k
ParseElements(s, k, acc) ==
    LET val == ParseValue(s, k)
    IN  IF ~val.ok THEN Fail
        ELSE LET e == SkipWs(s, val.pos)
                 acc2 == Append(acc, val.val)
             IN  IF e > Len(s) THEN Fail
                 ELSE IF s[e] = "]" THEN Ok(ListVal(acc2), e + 1)
                 ELSE IF s[e] = "," THEN ParseElements(s, SkipWs(s, e + 1), acc2)
                 ELSE Fail

\* scan_once: the value that starts at k
ParseValue(s, k) ==
    IF k > Len(s) THEN Fail
    ELSE IF s[k] = QUOTE THEN ParseString(s, k)
    ELSE IF s[k] = "{"
    THEN LET j == SkipWs(s, k + 1)
         IN  IF j > Len(s) THEN Fail
             ELSE IF s[j] = "}" THEN Ok(DictVal(EmptyDict), j + 1)
             ELSE ParseMembers(s, j, EmptyDict)
    ELSE IF s[k] = "["
    THEN LET j == SkipWs(s, k + 1)
         IN  IF j > Len(s) THEN Fail
             ELSE IF s[j] = "]" THEN Ok(ListVal(<<>>), j + 1)
             ELSE ParseElements(s, j, <<>>)
    ELSE IF \E w \in JSON_CONSTANTS : StartsWithAt(s, k, w)
    THEN LET w == CHOOSE c \in JSON_CONSTANTS : StartsWithAt(s, k, c)
         IN  Ok(ConstVal(w), k + Len(w))
    ELSE ParseNumber(s, k)

\* json.loads(s): one value, whitespace around it, nothing else (Fail: ValueError)
JsonLoads(s) ==
    LET r == ParseValue(s, SkipWs(s, 1))
    IN  IF ~r.ok THEN Fail
        ELSE IF SkipWs(s, r.pos) # Len(s) + 1 THEN Fail
        ELSE r

----------------------------------------------------------------------------
(* _parse_to_json *)

\* Mutant of ParseToJson: a field the record already has is not overwritten
ParseToJson_keeps(l, env) ==
    IF "FORMAT" \notin DOMAIN env THEN Returned(l)
    ELSE IF Lower(env["FORMAT"]) # S_json THEN Returned(l)
    ELSE IF K_message \notin DOMAIN l THEN Returned(l)
    ELSE IF l[K_message].t # "str" THEN Raised("TypeError", l)
    ELSE LET json_object == JsonLoads(l[K_message].v)
         IN  IF ~json_object.ok THEN Returned(l)
             ELSE IF json_object.val.t # "dict" THEN Raised("AttributeError", l)
             ELSE Returned(Update(json_object.val.v, l))

ParseToJson(l, env) ==
    IF "FORMAT" \notin DOMAIN env THEN Returned(l)
    ELSE IF Lower(env["FORMAT"]) # S_json THEN Returned(l)
    ELSE IF K_message \notin DOMAIN l THEN Returned(l)
    ELSE IF l[K_message].t # "str" THEN Raised("TypeError", l)
    ELSE LET json_object == JsonLoads(l[K_message].v)
         IN  IF ~json_object.ok THEN Returned(l)
             ELSE IF json_object.val.t # "dict" THEN Raised("AttributeError", l)
             ELSE Returned(Update(l, json_object.val.v))

----------------------------------------------------------------------------
(* IP_PATTERN and _anonymize_ip_addresses *)

\* Width in bits of the modelled str hash
HashWidth == 8

\* [:.\w], the characters the lookbehind and the lookahead of IP_PATTERN refuse
Refused(c) == c \in {":", "."} \/ IsWord(c)

\* Every alternative of IP_PATTERN but the first (the dotted quad) needs "::",
\* seven ":" or "%": on a message with none of them only the first can match.
DottedQuadOnly(s) ==
    /\ "%" \notin Range(s)
    /\ ~Contains(s, <<":", ":">>)
    /\ Cardinality({k \in DOMAIN s : s[k] = ":"}) < 7

\* [0-9]{n} at position a
DigitRun(s, a, n) ==
    /\ a + n - 1 <= Len(s)
    /\ \A m \in a..(a + n - 1) : IsDigit(s[m])

IsDotAt(s, a) == a <= Len(s) /\ s[a] = "."

\* The ways (?:[0-9]{1,3}\.){3}[0-9]{1,3} matches at position p with the
\* lookbehind before it and the lookahead after it: the four group lengths
QuadMatches(s, p) ==
    { g \in (1..3) \X (1..3) \X (1..3) \X (1..3) :
        /\ (p = 1 \/ ~Refused(s[p - 1]))
        /\ DigitRun(s, p, g[1])
        /\ IsDotAt(s, p + g[1])
        /\ DigitRun(s, p + g[1] + 1, g[2])
        /\ IsDotAt(s, p + g[1] + g[2] + 1)
        /\ DigitRun(s, p + g[1] + g[2] + 2, g[3])
        /\ IsDotAt(s, p + g[1] + g[2] + g[3] + 2)
        /\ DigitRun(s, p + g[1] + g[2] + g[3] + 3, g[4])
        /\ LET after == p + g[1] + g[2] + g[3] + g[4] + 3
           IN  after > Len(s) \/ ~Refused(s[after]) }

\* Greedy quantifiers: the match taken is the first in backtracking order,
\* the longest first group, then the longest second, and so on.
Greedier(g, h) ==
    \/ g[1] > h[1]
    \/ g[1] = h[1] /\ g[2] > h[2]
    \/ g[1] = h[1] /\ g[2] = h[2] /\ g[3] > h[3]
    \/ g[1] = h[1] /\ g[2] = h[2] /\ g[3] = h[3] /\ g[4] >= h[4]

\* match.end() of IP_PATTERN matched at position p (a 1-based start), or 0
MatchEnd(s, p) ==
    LET ms == QuadMatches(s, p)
    IN  IF ms = {} THEN 0
        ELSE LET g == CHOOSE x \in ms : \A y \in ms : Greedier(x, y)
             IN  p + g[1] + g[2] + g[3] + g[4] + 2

Ord(c) ==
    IF IsDigit(c) THEN 48 + DigitVal(c)
    ELSE IF c = "." THEN 46
    ELSE 58

RECURSIVE HashFold(_, _)
HashFold(h, s) ==
    IF s = <<>> THEN h
    ELSE HashFold((h * 31 + Ord(Head(s))) % (2 ^ HashWidth), Tail(s))

\* hash(s): a signed integer fixed by the text and the process's hash seed
PyHash(seed, s) == HashFold(seed, s) - 2 ^ (HashWidth - 1)

\* Mutant of AnonymizeFrom: the hash of a match depends on where the match is
RECURSIVE AnonymizeFrom_salted(_, _, _, _, _)
AnonymizeFrom_salted(msg, pos, last_end, new_msg, seed) ==
    LET starts == {p \in pos..Len(msg) : MatchEnd(msg, p) # 0}
    IN  IF starts = {} THEN new_msg \o Slice(msg, last_end)
        ELSE LET p == CHOOSE x \in starts : \A y \in starts : x <= y
                 e == MatchEnd(msg, p)
                 group == SubSeq(msg, p, e)
             IN  AnonymizeFrom_salted(msg, e + 1, e,
                     new_msg \o SliceTo(msg, last_end, p - 1)
                             \o <<"I", "P", "(">>
                             \o IntToStr(PyHash(seed + last_end, group))
                             \o <<")">>,
                     seed)

\* The loop over IP_PATTERN.finditer(msg), resumed at position pos
RECURSIVE AnonymizeFrom(_, _, _, _, _)
AnonymizeFrom(msg, pos, last_end, new_msg, seed) ==
    LET starts == {p \in pos..Len(msg) : MatchEnd(msg, p) # 0}
    IN  IF starts = {} THEN new_msg \o Slice(msg, last_end)
        ELSE LET p == CHOOSE x \in starts : \A y \in starts : x <= y
                 e == MatchEnd(msg, p)
                 group == SubSeq(msg, p, e)
             IN  AnonymizeFrom(msg, e + 1, e,
                     new_msg \o SliceTo(msg, last_end, p - 1)
                             \o <<"I", "P", "(">> \o IntToStr(PyHash(seed, group))
                             \o <<")">>,
                     seed)

AnonymizeIpAddresses(l, seed) ==
    IF K_message \notin DOMAIN l THEN Raised("KeyError", l)
    ELSE Returned(Put(l, K_message,
                      StrVal(AnonymizeFrom(PyStr(l[K_message]), 1, 0, <<>>, seed))))

----------------------------------------------------------------------------
(* _get_additional_logs_data *)

\* Mutant of EnrichFrom: a key that is already set is not set again
RECURSIVE EnrichFrom_first(_, _, _)
EnrichFrom_first(properties_to_enrich, k, acc) ==
    IF k > Len(properties_to_enrich) THEN Returned(acc)
    ELSE LET property_key_value == Split(properties_to_enrich[k], "=")
         IN  IF Len(property_key_value) <= VALUE_INDEX THEN Raised("IndexError", acc)
             ELSE EnrichFrom_first(properties_to_enrich, k + 1,
                      IF property_key_value[KEY_INDEX + 1] \in DOMAIN acc THEN acc
                      ELSE Put(acc, property_key_value[KEY_INDEX + 1],
                               StrVal(property_key_value[VALUE_INDEX + 1])))

\* The for loop over the pieces of ENRICH, resumed at piece k
RECURSIVE EnrichFrom(_, _, _)
EnrichFrom(properties_to_enrich, k, acc) ==
    IF k > Len(properties_to_enrich) THEN Returned(acc)
    ELSE LET property_key_value == Split(properties_to_enrich[k], "=")
         IN  IF Len(property_key_value) <= VALUE_INDEX THEN Raised("IndexError", acc)
             ELSE EnrichFrom(properties_to_enrich, k + 1,
                      Put(acc, property_key_value[KEY_INDEX + 1],
                          StrVal(property_key_value[VALUE_INDEX + 1])))

GetAdditionalLogsData(data, env) ==
    LET base == Put(Put(EmptyDict, K_service, data.logGroup),
                    K_logger_name, data.logStream)
        enriched == IF "ENRICH" \in DOMAIN env /\ env["ENRICH"] # <<>>
                    THEN EnrichFrom(Split(env["ENRICH"], ";"), 1, base)
                    ELSE Returned(base)
    IN  IF enriched.exc # "none" THEN enriched
        ELSE Returned(Put(enriched.log, K_type,
                          StrVal(IF "TYPE" \in DOMAIN env THEN env["TYPE"]
                                 ELSE DEFAULT_TYPE)))

----------------------------------------------------------------------------
(* _extract_aws_logs_data *)

\* The payload is kept as the stage at which its decoding stops and the
\* document it decodes to.  base64.b64decode raises binascii.Error and
\* json.loads JSONDecodeError, both ValueErrors, which the function catches
\* and raises again as ValueError; gzip raises BadGzipFile, an OSError, which
\* it does not catch.
ExtractAwsLogsData(data) ==
    IF data.stops = "base64" THEN Raised("ValueError", data.doc)
    ELSE IF data.stops = "gzip" THEN Raised("OSError", data.doc)
    ELSE IF data.stops = "json" THEN Raised("ValueError", data.doc)
    ELSE Returned(data.doc)

----------------------------------------------------------------------------
(* _parse_cloudwatch_log as one function: what it leaves in log, whether it
   returns True (keep), and the exception that leaves it *)

Outcome(e, d, k) == [exc |-> e, log |-> d, keep |-> k]

ParseCloudwatchLog(l, additional, env, seed) ==
    LET stamped == AddTimestamp(l)
        anonymized == AnonymizeIpAddresses(stamped.log, seed)
        in_lambda == Contains(additional[K_service].v, LAMBDA_LOG_GROUP)
        extracted == IF in_lambda THEN ExtractLambdaLogMessage(anonymized.log)
                     ELSE anonymized.log
        flattened == ParseToJson(Update(Del(extracted, K_id), additional), env)
    IN  IF stamped.exc # "none" THEN Outcome(stamped.exc, stamped.log, FALSE)
        ELSE IF anonymized.exc # "none"
        THEN Outcome(anonymized.exc, anonymized.log, FALSE)
        ELSE IF in_lambda /\ ~IsValidLog(anonymized.log)
        THEN Outcome("none", anonymized.log, FALSE)
        ELSE IF K_id \notin DOMAIN extracted THEN Outcome("KeyError", extracted, FALSE)
        ELSE Outcome(flattened.exc, flattened.log, flattened.exc = "none")

----------------------------------------------------------------------------
(* lambda_handler and _parse_cloudwatch_log, one action per statement *)

Raise(e) ==
    /\ pc' = "raised"
    /\ raised' = e

\* aws_logs_data = _extract_aws_logs_data(event)
Extract ==
    /\ pc = "extract"
    /\ LET r == ExtractAwsLogsData(payload)
       IN  IF r.exc # "none"
           THEN /\ Raise(r.exc)
                /\ UNCHANGED aws_logs_data
           ELSE /\ aws_logs_data' = r.log
                /\ pc' = "additional"
                /\ UNCHANGED raised
    /\ UNCHANGED <<environ, hashSeed, payload, additional_data, idx, log, shipper>>

\* additional_data = _get_additional_logs_data(aws_logs_data, context)
\* shipper = LogzioShipper()
GetAdditional ==
    /\ pc = "additional"
    /\ LET r == GetAdditionalLogsData(aws_logs_data, environ)
       IN  IF r.exc # "none"
           THEN /\ Raise(r.exc)
                /\ UNCHANGED <<additional_data, shipper>>
           ELSE /\ additional_data' = r.log
                /\ shipper' = <<>>
                /\ pc' = "loop"
                /\ UNCHANGED raised
    /\ UNCHANGED <<environ, hashSeed, payload, aws_logs_data, idx, log>>

\* for log in aws_logs_data['logEvents']: the next entry, a dict
ForNext ==
    /\ pc = "loop"
    /\ idx <= Len(aws_logs_data.logEvents)
    /\ aws_logs_data.logEvents[idx].t = "dict"
    /\ log' = aws_logs_data.logEvents[idx].v
    /\ pc' = "add_timestamp"
    /\ UNCHANGED <<environ, hashSeed, payload, aws_logs_data, additional_data, idx,
                   raised, shipper>>

\* Mutant of ForNotDict: the sink is flushed on the way out, as a finally would
ForNotDict_flushes ==
    /\ pc = "loop"
    /\ idx <= Len(aws_logs_data.logEvents)
    /\ aws_logs_data.logEvents[idx].t # "dict"
    /\ Raise("TypeError")
    /\ shipper' = Append(shipper, [op |-> "flush", log |-> EmptyDict])
    /\ UNCHANGED <<environ, hashSeed, payload, aws_logs_data, additional_data, idx,
                   log>>

\* if not isinstance(log, dict): raise TypeError(...)
ForNotDict ==
    /\ pc = "loop"
    /\ idx <= Len(aws_logs_data.logEvents)
    /\ aws_logs_data.logEvents[idx].t # "dict"
    /\ Raise("TypeError")
    /\ UNCHANGED <<environ, hashSeed, payload, aws_logs_data, additional_data, idx,
                   log, shipper>>

\* the for loop is exhausted
ForEnd ==
    /\ pc = "loop"
    /\ idx > Len(aws_logs_data.logEvents)
    /\ pc' = "flush"
    /\ UNCHANGED <<environ, hashSeed, payload, aws_logs_data, additional_data, idx,
                   log, raised, shipper>>

\* A statement of _parse_cloudwatch_log that works on log and may raise
Statement(at, r, next) ==
    /\ pc = at
    /\ log' = r.log
    /\ IF r.exc # "none" THEN Raise(r.exc)
       ELSE pc' = next /\ UNCHANGED raised
    /\ UNCHANGED <<environ, hashSeed, payload, aws_logs_data, additional_data, idx,
                   shipper>>

\* _add_timestamp(log)
DoAddTimestamp == Statement("add_timestamp", AddTimestamp(log), "anonymize")

\* _anonymize_ip_addresses(log)
DoAnonymize == Statement("anonymize", AnonymizeIpAddresses(log, hashSeed), "is_valid")

\* if LAMBDA_LOG_GROUP in additional_data['service']: if _is_valid_log(log): ...
InLambdaLogGroup == Contains(additional_data[K_service].v, LAMBDA_LOG_GROUP)

\* ... not a lambda log group: on to del log['id']
SkipLambda ==
    /\ pc = "is_valid"
    /\ ~InLambdaLogGroup
    /\ Statement("is_valid", Returned(log), "del_id")

\* ... a lambda log group and a valid log: on to _extract_lambda_log_message
ValidLog ==
    /\ pc = "is_valid"
    /\ InLambdaLogGroup
    /\ IsValidLog(log)
    /\ Statement("is_valid", Returned(log), "extract_lambda")

\* ... else: return False, and the for loop goes on to the next entry
InvalidLog ==
    /\ pc = "is_valid"
    /\ InLambdaLogGroup
    /\ ~IsValidLog(log)
    /\ idx' = idx + 1
    /\ pc' = "loop"
    /\ UNCHANGED <<environ, hashSeed, payload, aws_logs_data, additional_data, log,
                   raised, shipper>>

\* _extract_lambda_log_message(log)
DoExtractLambda ==
    Statement("extract_lambda", Returned(ExtractLambdaLogMessage(log)), "del_id")

\* Mutant of DelId: the id is left in the record
DelId_skips == Statement("del_id", Returned(log), "update")

\* del log['id']
DelId ==
    Statement("del_id",
              IF K_id \in DOMAIN log THEN Returned(Del(log, K_id))
              ELSE Raised("KeyError", log),
              "update")

\* log.update(additional_data)
DoUpdate == Statement("update", Returned(Update(log, additional_data)), "parse_to_json")

\* _parse_to_json(log); return True
DoParseToJson == Statement("parse_to_json", ParseToJson(log, environ), "add")

\* Mutant of ShipperAdd: the call is put in front of the earlier ones
ShipperAdd_prepends ==
    /\ pc = "add"
    /\ shipper' = <<[op |-> "add", log |-> log]>> \o shipper
    /\ idx' = idx + 1
    /\ pc' = "loop"
    /\ UNCHANGED <<environ, hashSeed, payload, aws_logs_data, additional_data, log,
                   raised>>

\* shipper.add(log)
ShipperAdd ==
    /\ pc = "add"
    /\ shipper' = Append(shipper, [op |-> "add", log |-> log])
    /\ idx' = idx + 1
    /\ pc' = "loop"
    /\ UNCHANGED <<environ, hashSeed, payload, aws_logs_data, additional_data, log,
                   raised>>

\* shipper.flush()
ShipperFlush ==
    /\ pc = "flush"
    /\ shipper' = Append(shipper, [op |-> "flush", log |-> EmptyDict])
    /\ pc' = "done"
    /\ UNCHANGED <<environ, hashSeed, payload, aws_logs_data, additional_data, idx,
                   log, raised>>

Next ==
    \/ Extract
    \/ GetAdditional
    \/ ForNext
    \/ ForNotDict
    \/ ForEnd
    \/ DoAddTimestamp
    \/ DoAnonymize
    \/ SkipLambda
    \/ ValidLog
    \/ InvalidLog
    \/ DoExtractLambda
    \/ DelId
    \/ DoUpdate
    \/ DoParseToJson
    \/ ShipperAdd
    \/ ShipperFlush

----------------------------------------------------------------------------
(* Invocations: the environment, the hash seed and the payload *)

\* Longest logEvents list of the invocations explored
MaxEvents == 2

SeqsUpTo(S, n) == UNION {[1..m -> S] : m \in 0..n}

Env0 == [x \in {} |-> <<>>]
SetEnv(env, name, value) == [x \in (DOMAIN env) \cup {name} |-> IF x = name THEN value ELSE env[x]]

\* FORMAT=json ENRICH=env=prod;team=core TYPE=t
EnvJson ==
    SetEnv(SetEnv(SetEnv(Env0, "FORMAT", <<"j","s","o","n">>),
                  "ENRICH", <<"e","n","v","=","p","r","o","d",";",
                              "t","e","a","m","=","c","o","r","e">>),
           "TYPE", <<"t">>)
\* FORMAT=JSON ENRICH= (empty)
EnvUpper == SetEnv(SetEnv(Env0, "FORMAT", <<"J","S","O","N">>), "ENRICH", <<>>)
\* FORMAT=text ENRICH=env=a;env=b=c
EnvText ==
    SetEnv(SetEnv(Env0, "FORMAT", <<"t","e","x","t">>),
           "ENRICH", <<"e","n","v","=","a",";","e","n","v","=","b","=","c">>)
\* ENRICH=env;k=v, a piece without "="
EnvNoEquals == SetEnv(Env0, "ENRICH", <<"e","n","v",";","k","=","v">>)
\* FORMAT=json ENRICH=id=7;service=s;type=u
EnvKeys ==
    SetEnv(SetEnv(Env0, "FORMAT", <<"j","s","o","n">>),
           "ENRICH", <<"i","d","=","7",";","s","e","r","v","i","c","e","=","s",";",
                       "t","y","p","e","=","u">>)

Environs == {Env0, EnvJson, EnvText, EnvNoEquals, EnvKeys}

HashSeeds == {0, 1}

G_lambda == <<"/","a","w","s","/","l","a","m","b","d","a","/","f">>
G_app == <<"a","p","p">>
LogGroups == {G_lambda, G_app}

\* One entry of logEvents as CloudWatch Logs writes it
Event(id, timestamp, message) ==
    DictVal(Put(Put(Put(EmptyDict, K_id, StrVal(id)), K_timestamp, IntVal(timestamp)),
                K_message, StrVal(message)))

M_start == <<"S","T","A","R","T"," ","r">>
M_end_ip == <<"E","N","D"," ","1",".","2",".","3",".","4">>
M_text == <<"h","i">>
\* "[ERROR] 2024-01-01T00:00:00Z\treq-123\tboom"
T_2024 == <<"2","0","2","4","-","0","1","-","0","1","T","0","0",":","0","0",":","0","0","Z">>
R_123 == <<"r","e","q","-","1","2","3">>
M_python == <<"[","E","R","R","O","R","]"," ">> \o T_2024 \o <<TAB>> \o R_123
                \o <<TAB,"b","o","o","m">>
M_ip == <<"a"," ","1",".","2",".","3",".","4">>
M_json_keys ==
    <<"{",QUOTE,"i","d",QUOTE,":","5",",",QUOTE,"s","e","r","v","i","c","e",QUOTE,":",
      QUOTE,"x",QUOTE,",",QUOTE,"m","e","s","s","a","g","e",QUOTE,":",QUOTE,"m",QUOTE,"}">>
M_json_number == <<"1">>

Messages == {M_start, M_text, M_python, M_json_keys, M_json_number}

\* An entry that carries both timestamp keys
EventBoth ==
    DictVal(Put(Event(<<"3">>, 17, M_text).v, K_at_timestamp, StrVal(<<"T","0">>)))

Entries ==
    {Event(<<"3">>, 17, m) : m \in Messages} \cup {EventBoth, StrVal(<<"x">>)}

Doc(group, events) ==
    [logEvents |-> events, logGroup |-> StrVal(group), logStream |-> StrVal(<<"s","1">>)]

NoDoc == Doc(<<>>, <<>>)

Decodable(docs) == {[stops |-> "none", doc |-> d] : d \in docs}
Undecodable == {[stops |-> at, doc |-> NoDoc] : at \in {"base64", "gzip", "json"}}

InitWith(envs, seeds, payloads) ==
    /\ environ \in envs
    /\ hashSeed \in seeds
    /\ payload \in payloads
    /\ aws_logs_data = NoDoc
    /\ additional_data = EmptyDict
    /\ idx = 1
    /\ log = EmptyDict
    /\ pc = "extract"
    /\ raised = "none"
    /\ shipper = <<>>

Init ==
    InitWith(Environs, {0},
             Decodable({Doc(g, evs) : g \in LogGroups, evs \in SeqsUpTo(Entries, MaxEvents)})
                 \cup Undecodable)

Spec == Init /\ [][Next]_vars

\* Invocations that between them take every branch of lambda_handler
CoverDocs ==
    { Doc(G_lambda, <<Event(<<"3">>, 17, M_start), Event(<<"4">>, 18, M_text)>>),
      Doc(G_app, <<Event(<<"3">>, 17, M_text), StrVal(<<"x">>)>>) }

(* Messages of a lambda runtime: a level prefix and tab-separated parts *)

\* Most parts of a generated lambda message
MaxParts == 5

RECURSIVE Join(_, _)
Join(parts, sep) ==
    IF Len(parts) = 1 THEN parts[1]
    ELSE parts[1] \o sep \o Join(Tail(parts), sep)

LevelPrefixes ==
    { <<>>,
      <<"[","E","R","R","O","R","]"," ">>,
      <<"[","E","R","R","O","R","]">>,
      <<"[","W","a","r","n","]","-">>,
      <<"[","x","]"," ">>,
      <<"]"," ","[","I","N","F","O","]"," ">>,
      <<"[","I","N","F","O">>,
      <<"a"," ","[","d","e","b","u","g","]"," ">> }

PartWords == { <<>>, <<"a">>, <<"[","I","N","F","O","]">> }

LambdaMessages ==
    { prefix \o Join(parts, <<TAB>>) :
        prefix \in LevelPrefixes,
        parts \in UNION {[1..n -> PartWords] : n \in 1..MaxParts} }

InitLambda ==
    InitWith({Env0}, {0},
             Decodable({Doc(G_lambda, <<Event(<<"3">>, 17, m)>>) :
                            m \in LambdaMessages \cup {M_python}} \cup CoverDocs)
                 \cup Undecodable)

SpecLambda == InitLambda /\ [][Next]_vars

(* Messages that are JSON texts: objects written out pair by pair, and texts
   that are no JSON or no object *)

\* Most pairs of a generated JSON object
MaxPairs == 2

K_user == <<"u","s","e","r">>
K_level == <<"l","e","v","e","l">>

JsonPairs ==
    {K_user, K_level, K_message} \X
    {StrVal(<<"a">>), StrVal(<<"w","a","r","n">>), IntVal(5)}

\* json.dumps of a string or an int
DumpValue(x) == IF x.t = "int" THEN IntToStr(x.v) ELSE <<QUOTE>> \o x.v \o <<QUOTE>>

RECURSIVE DumpPairs(_, _, _)
DumpPairs(pairs, colon, comma) ==
    IF pairs = <<>> THEN <<>>
    ELSE <<QUOTE>> \o pairs[1][1] \o <<QUOTE>> \o colon \o DumpValue(pairs[1][2])
         \o (IF Len(pairs) = 1 THEN <<>> ELSE comma)
         \o DumpPairs(Tail(pairs), colon, comma)

\* The object with these pairs as json.dumps writes it, and without the spaces
Dumps(pairs) == <<"{">> \o DumpPairs(pairs, <<":", " ">>, <<",", " ">>) \o <<"}">>
DumpsCompact(pairs) == <<"{">> \o DumpPairs(pairs, <<":">>, <<",">>) \o <<"}">>

PairSeqs == SeqsUpTo(JsonPairs, MaxPairs)

\* The dict a JSON object with these pairs stands for: of a repeated key the last
RECURSIVE FromPairs(_)
FromPairs(pairs) ==
    IF pairs = <<>> THEN EmptyDict
    ELSE Put(FromPairs(SubSeq(pairs, 1, Len(pairs) - 1)),
             pairs[Len(pairs)][1], pairs[Len(pairs)][2])

\* Texts that are no JSON, and JSON texts that are no object
NotObjects ==
    { <<>>, <<"h","i">>, <<"{">>, <<"{",QUOTE,"a",QUOTE>>,
      <<"{",QUOTE,"a",QUOTE,":","1">>, <<"{",QUOTE,"a",QUOTE,":","}">>,
      <<"{",QUOTE,"a",QUOTE,":","1","}","x">>, <<"{","a",":","1","}">>,
      <<"{",QUOTE,"a",QUOTE,":","1",",","}">>,
      <<"1">>, <<QUOTE,"a",QUOTE>>, <<"[","1","]">>, <<"n","u","l","l">>,
      <<"[","{",QUOTE,"a",QUOTE,":","1","}","]">> }

\* The texts of the objects, each with the pairs it was written from
ObjectTexts ==
    {<<Dumps(pairs), pairs>> : pairs \in PairSeqs}
        \cup {<<DumpsCompact(pairs), pairs>> : pairs \in PairSeqs}

JsonMessages == {x[1] : x \in ObjectTexts} \cup NotObjects

InitJson ==
    InitWith({Env0, EnvJson, EnvUpper, EnvText}, {0},
             Decodable({Doc(g, <<Event(<<"3">>, 17, m)>>) :
                            g \in LogGroups, m \in JsonMessages} \cup CoverDocs)
                 \cup Undecodable)

SpecJson == InitJson /\ [][Next]_vars

(* Messages with dotted quads in them *)

\* Most tokens of a generated message
MaxTokens == 3

IpTokens ==
    { <<"1",".","2",".","3",".","4">>,
      <<"1","0",".","0",".","0",".","2","5","5">>,
      <<" ">>, <<"x">>, <<".">>, <<"1">>, <<":">> }

RECURSIVE Concat(_)
Concat(parts) == IF parts = <<>> THEN <<>> ELSE parts[1] \o Concat(Tail(parts))

IpMessages ==
    {m \in {Concat(parts) : parts \in SeqsUpTo(IpTokens, MaxTokens)} : DottedQuadOnly(m)}

\* Two records with the same address in them
SameAddressTwice == <<Event(<<"3">>, 17, M_ip), Event(<<"4">>, 18, M_end_ip)>>

InitAnon ==
    InitWith({Env0}, HashSeeds,
             Decodable({Doc(g, <<Event(<<"3">>, 17, m)>>) :
                            g \in LogGroups, m \in IpMessages}
                       \cup {Doc(g, SameAddressTwice) : g \in LogGroups}
                       \cup CoverDocs)
                 \cup Undecodable)

SpecAnon == InitAnon /\ [][Next]_vars

----------------------------------------------------------------------------
(* Properties *)

Events == aws_logs_data.logEvents

\* additional_data has been built: the for loop has been reached
Enriched == K_service \in DOMAIN additional_data

FlushCall == [op |-> "flush", log |-> EmptyDict]
AddCall(d) == [op |-> "add", log |-> d]

NoiseMarkers == {S_START, S_END, S_REPORT}
IsNoise(message) == \E w \in NoiseMarkers : StartsWith(message, w)

RawMessage(k) == Events[k].v[K_message].v

\* Entry k is a lifecycle record of a lambda log group, as the code sees it
Dropped(k) == InLambdaLogGroup /\ IsNoise(RawMessage(k))

\* The calls the sink has received once the first n entries are done with
RECURSIVE ExpectedCalls(_)
ExpectedCalls(n) ==
    IF n = 0 THEN <<>>
    ELSE ExpectedCalls(n - 1) \o
         (IF Dropped(n) THEN <<>>
          ELSE <<AddCall(ParseCloudwatchLog(Events[n].v, additional_data, environ,
                                            hashSeed).log)>>)

\* C1: in an invocation that lambda_handler returns from, the sink has received
\* one add per surviving entry, in the order of logEvents, and then one flush,
\* the last call; before that, and in an invocation an exception ends, it has
\* received the adds of the surviving entries gone through so far and no flush.
C1_AddsThenFlush ==
    Enriched =>
        IF pc = "done"
        THEN raised = "none" /\ shipper = ExpectedCalls(Len(Events)) \o <<FlushCall>>
        ELSE shipper = ExpectedCalls(idx - 1)

\* C1 witness: a returned invocation that shipped two different records
C1_Witness ==
    /\ pc = "done"
    /\ Len(shipper) = 3
    /\ shipper[1].log # shipper[2].log

\* C2 (as claimed): in a returned invocation on a log group whose name holds
\* '/aws/lambda/', no START, END or REPORT record is added and every other
\* record is: the adds are as many as the entries that are no such record.
C2_NoiseDropped ==
    (pc = "done" /\ Contains(aws_logs_data.logGroup.v, LAMBDA_LOG_GROUP)) =>
        /\ Len(shipper) = 1 + Cardinality({k \in DOMAIN Events : ~IsNoise(RawMessage(k))})
        /\ \A j \in 1..(Len(shipper) - 1) : shipper[j].op = "add"

\* The exceptions the decoding and the isinstance check end an invocation with
DecodeErrors == {"ValueError", "OSError"}
ShapeErrors == {"TypeError"}

\* C3 (as claimed): an invocation a fatal error ended has added nothing.
C3_NothingAddedOnFatal ==
    (pc = "raised" /\ raised \in DecodeErrors \cup ShapeErrors) => shipper = <<>>

\* C3 (amended): an invocation a fatal error ended has not flushed; an
\* undecodable payload ends it before any call on the sink, and an entry that
\* is no dict ends it at that entry, after the adds of the surviving entries
\* before it and before any entry behind it is looked at.
C3_FatalAbort ==
    /\ (pc = "raised" /\ raised \in DecodeErrors) => (shipper = <<>> /\ ~Enriched)
    /\ (pc = "raised" /\ raised \in ShapeErrors) =>
          /\ Events[idx].t # "dict"
          /\ \A k \in 1..(idx - 1) : Events[k].t = "dict"
          /\ \A j \in DOMAIN shipper : shipper[j].op = "add"
          /\ Len(shipper) = Cardinality({k \in 1..(idx - 1) : ~Dropped(k)})

\* C3 witness: a non-dict entry ended the invocation after an add
C3_Witness ==
    /\ pc = "raised"
    /\ raised \in ShapeErrors
    /\ Len(shipper) >= 1

\* C6 (as claimed): nothing but a fatal error ends an invocation; whatever the
\* messages and the enrichment string, lambda_handler returns.
C6_OnlyFatalErrorsAbort ==
    pc = "raised" => raised \in DecodeErrors \cup ShapeErrors

\* C7 (as claimed): after _add_timestamp the record holds @timestamp and
\* exactly one of @timestamp and timestamp.
C7_ExactlyOneKey ==
    pc = "anonymize" =>
        /\ K_at_timestamp \in DOMAIN log
        /\ K_timestamp \notin DOMAIN log

\* C7 (amended): after _add_timestamp the record holds @timestamp; a record
\* that came without it has lost timestamp, holds its decimal text as
\* @timestamp and is otherwise as it came; a record that came with @timestamp
\* is as it came, a timestamp key of its own included.
C7_TimestampStep ==
    pc = "anonymize" =>
        LET raw == Events[idx].v
        IN  /\ K_at_timestamp \in DOMAIN log
            /\ IF K_at_timestamp \in DOMAIN raw THEN log = raw
               ELSE /\ DOMAIN log = ((DOMAIN raw) \ {K_timestamp}) \cup {K_at_timestamp}
                    /\ log[K_at_timestamp].t = "str"
                    /\ StrToNat(log[K_at_timestamp].v) = raw[K_timestamp].v
                    /\ \A k \in (DOMAIN raw) \ {K_timestamp} : log[k] = raw[k]

\* C7 witness: both cases have been through the step
C7_Witness ==
    /\ pc = "anonymize"
    /\ idx = 2
    /\ K_timestamp \in DOMAIN log
    /\ K_at_timestamp \notin DOMAIN Events[1].v

\* The enrichment string, read piece by piece: a piece runs from the start or
\* a ";" to the next ";" or the end
EnrichString == IF "ENRICH" \in DOMAIN environ THEN environ["ENRICH"] ELSE <<>>

Pieces ==
    LET e == EnrichString
        semis == {k \in DOMAIN e : e[k] = ";"}
        starts == IF e = <<>> THEN {} ELSE {1} \cup {k + 1 : k \in semis}
        EndOf(a) == CHOOSE b \in (semis \cup {Len(e) + 1}) :
                        b >= a /\ \A c \in semis : c >= a => b <= c
    IN  {[at |-> a, text |-> SubSeq(e, a, EndOf(a) - 1)] : a \in starts}

Equals(piece) == {k \in DOMAIN piece.text : piece.text[k] = "="}
FirstEquals(piece) == CHOOSE k \in Equals(piece) : \A j \in Equals(piece) : k <= j
KeyOf(piece) == SubSeq(piece.text, 1, FirstEquals(piece) - 1)

\* key=value as the spec reads a piece: the value is all that follows the first "="
ValueOf(piece) == SubSeq(piece.text, FirstEquals(piece) + 1, Len(piece.text))

\* ... and as the code reads it: the value ends at the next "="
ValueCut(piece) ==
    LET rest == ValueOf(piece)
        stops == {k \in DOMAIN rest : rest[k] = "="}
    IN  IF stops = {} THEN rest
        ELSE SubSeq(rest, 1, (CHOOSE k \in stops : \A j \in stops : k <= j) - 1)

Pairs == {q \in Pieces : Equals(q) # {}}

\* The last piece that sets the key
LastPair(key) ==
    CHOOSE q \in Pairs :
        KeyOf(q) = key /\ \A r \in Pairs : KeyOf(r) = key => r.at <= q.at

ConfiguredType ==
    StrVal(IF "TYPE" \in DOMAIN environ THEN environ["TYPE"] ELSE DEFAULT_TYPE)

AddedRecords == {shipper[j].log : j \in {i \in DOMAIN shipper : shipper[i].op = "add"}}

Carries(d, key, value) == key \in DOMAIN d /\ d[key] = value

EnrichmentKeys == {K_service, K_logger_name, K_type} \cup {KeyOf(q) : q \in Pairs}

\* The value the enrichment gives a key: type is the override or the default;
\* any other key a pair sets has the value of the last such pair, up to a
\* second "="; service and logger_name, unless a pair sets them, are the log
\* group and the log stream.
EnrichmentValue(key) ==
    IF key = K_type THEN ConfiguredType
    ELSE IF \E q \in Pairs : KeyOf(q) = key THEN StrVal(ValueCut(LastPair(key)))
    ELSE IF key = K_service THEN aws_logs_data.logGroup
    ELSE aws_logs_data.logStream

FlattenOn == "FORMAT" \in DOMAIN environ /\ Lower(environ["FORMAT"]) = S_json

\* The message of d is the text of a JSON object with a top-level key `key`
JsonDefines(d, key) ==
    LET r == JsonLoads(d[K_message].v)
    IN  r.ok /\ r.val.t = "dict" /\ key \in DOMAIN r.val.v

JsonValue(d, key) == JsonLoads(d[K_message].v).val.v[key]

\* C4 (amended), after log.update: the record carries every enrichment key
\* with the enrichment's value
C4_AfterMerge ==
    pc = "parse_to_json" =>
        \A key \in EnrichmentKeys : Carries(log, key, EnrichmentValue(key))

\* C4 (amended), over _parse_to_json: every enrichment key stays, with the
\* enrichment's value or, flattening being on, the value the message's JSON
\* object gives that key
C4_AfterFlatten ==
    (pc = "parse_to_json" /\ pc' = "add") =>
        \A key \in EnrichmentKeys :
            IF FlattenOn /\ JsonDefines(log, key)
            THEN Carries(log', key, JsonValue(log, key))
            ELSE Carries(log', key, EnrichmentValue(key))

\* The record passed to add is log as _parse_cloudwatch_log left it
PassedAsLeft == pc = "add" => shipper' = Append(shipper, AddCall(log))

C5_NoIdAdded == \A d \in AddedRecords : K_id \notin DOMAIN d

\* C5 (amended), after del log['id']: the record holds no id
C5_IdDeleted == pc = "update" => K_id \notin DOMAIN log

\* C5 (amended), over log.update: an id comes back exactly if a pair of the
\* enrichment string sets it, with that value
C5_AfterMerge ==
    (pc = "update" /\ pc' = "parse_to_json") =>
        IF K_id \in EnrichmentKeys THEN Carries(log', K_id, EnrichmentValue(K_id))
        ELSE K_id \notin DOMAIN log'

\* C5 (amended), over _parse_to_json: an id comes in exactly if flattening is
\* on and the message is a JSON object with a top-level id, with that value
C5_AfterFlatten ==
    (pc = "parse_to_json" /\ pc' = "add") =>
        IF FlattenOn /\ JsonDefines(log, K_id) THEN Carries(log', K_id, JsonValue(log, K_id))
        ELSE (K_id \in DOMAIN log') = (K_id \in DOMAIN log) /\
             (K_id \in DOMAIN log => log'[K_id] = log[K_id])

\* C5 (amended): the id of the raw event is deleted from every record before
\* the enrichment is merged; a record passed to add holds an id exactly if
\* the enrichment string sets the key id or, flattening being on, its message
\* is a JSON object with a top-level id, and the id it holds is that one.
C5_TransientId ==
    /\ []C5_IdDeleted
    /\ [][C5_AfterMerge]_vars
    /\ [][C5_AfterFlatten]_vars
    /\ [][PassedAsLeft]_vars

\* C5 witness: a record was added with the id of its JSON message
C5_Witness == \E d \in AddedRecords : Carries(d, K_id, IntVal(5))


(* The runtime message parser *)

\* The key is in the record after the step just as it was before it
Same(key) ==
    /\ (key \in DOMAIN log') = (key \in DOMAIN log)
    /\ key \in DOMAIN log => log'[key] = log[key]

\* What the parser has to make of the message s of the record
LambdaParsed(s) ==
    LET opens == {k \in 1..Len(s) : s[k] = "["}
        closes == {k \in 1..Len(s) : s[k] = "]"}
        a == CHOOSE k \in opens : \A j \in opens : k <= j
        b == CHOOSE k \in closes : \A j \in closes : k <= j
        found == opens # {} /\ closes # {}
        token == IF found /\ a < b THEN SubSeq(s, a + 1, b - 1) ELSE <<>>
        is_level == found /\ Lower(token) \in LOG_LEVELS
        from == IF is_level THEN b + 2 ELSE 1
        tabs == {k \in from..Len(s) : s[k] = TAB}
        n == Cardinality(tabs) + 1
        TabAt(j) == IF j = 0 THEN from - 1
                    ELSE IF j = n THEN Len(s) + 1
                    ELSE CHOOSE k \in tabs : Cardinality({t \in tabs : t <= k}) = j
        Part(j) == IF j > n \/ TabAt(j - 1) + 1 > TabAt(j) - 1 THEN <<>>
                   ELSE SubSeq(s, TabAt(j - 1) + 1, TabAt(j) - 1)
    IN  [is_level |-> is_level, token |-> token, n |-> n,
         first |-> Part(1), second |-> Part(2),
         third |-> Part(3), last |-> Part(n)]

\* C8: the parser takes the text between the first "[" and the first "]" as the
\* level when its lower-cased form is a known level, and then splits what
\* follows the "]" and one more character, or else the whole message, on tabs;
\* three or four parts set @timestamp, requestID and message from the first,
\* the second and the last part, four parts set log_level from the third, any
\* other number of parts leaves these alone, and no other key changes.
C8_LambdaParser ==
    [][pc = "extract_lambda" =>
         LET r == LambdaParsed(log[K_message].v)
             recognised == r.n = PYTHON_EVENT_SIZE \/ r.n = NODEJS_EVENT_SIZE
         IN  /\ IF r.n = NODEJS_EVENT_SIZE THEN Carries(log', K_log_level, StrVal(r.third))
                ELSE IF r.is_level THEN Carries(log', K_log_level, StrVal(r.token))
                ELSE Same(K_log_level)
             /\ IF recognised
                THEN /\ Carries(log', K_at_timestamp, StrVal(r.first))
                     /\ Carries(log', K_requestID, StrVal(r.second))
                     /\ Carries(log', K_message, StrVal(r.last))
                ELSE Same(K_at_timestamp) /\ Same(K_requestID) /\ Same(K_message)
             /\ \A key \in (DOMAIN log \cup DOMAIN log')
                        \ {K_log_level, K_at_timestamp, K_requestID, K_message} :
                    Same(key)]_vars

\* The record of "[ERROR] 2024-01-01T00:00:00Z\treq-123\tboom" after the parser
C8_Witness ==
    /\ pc = "del_id"
    /\ RawMessage(idx) = M_python
    /\ Carries(log, K_log_level, StrVal(<<"E","R","R","O","R">>))
    /\ Carries(log, K_at_timestamp, StrVal(T_2024))
    /\ Carries(log, K_requestID, StrVal(R_123))
    /\ Carries(log, K_message, StrVal(<<"b","o","o","m">>))

(* The JSON flattener *)

FlagIsJson == FlattenOn
FlagIsExactlyJson == "FORMAT" \in DOMAIN environ /\ environ["FORMAT"] = S_json

\* The flattener's step when the flag counts as set under the reading given
Flattens(flag_set) ==
    pc = "parse_to_json" =>
        LET m == log[K_message].v
        IN  /\ ~flag_set => log' = log
            /\ m \in NotObjects => log' = log
            /\ \A x \in ObjectTexts :
                   flag_set /\ m = x[1] => log' = Update(log, FromPairs(x[2]))

\* C9 as written: the record changes only when the flag is exactly 'json'
C9_ExactFlag == [][Flattens(FlagIsExactlyJson)]_vars

\* C9: when the flag, compared without regard to case, is 'json' and the message
\* is the text of a JSON object, the object's entries are merged into the
\* record, overwriting the fields it has; when the flag is anything else or
\* absent, or the message is no JSON or no JSON object, the record is unchanged.
C9_Flattener == [][Flattens(FlagIsJson)]_vars

\* The record of '{"user":"a","level":"warn"}' after the flattener
C9_Witness ==
    /\ pc = "add"
    /\ FlagIsJson
    /\ RawMessage(idx) = DumpsCompact(<<<<K_user, StrVal(<<"a">>)>>,
                                        <<K_level, StrVal(<<"w","a","r","n">>)>>>>)
    /\ Carries(log, K_user, StrVal(<<"a">>))
    /\ Carries(log, K_level, StrVal(<<"w","a","r","n">>))

(* The IP anonymizer *)

\* s[p..e] is four groups of one to three digits with dots between them
IsQuad(s, p, e) ==
    /\ \A k \in p..e : IsDigit(s[k]) \/ s[k] = "."
    /\ Cardinality({k \in p..e : s[k] = "."}) = 3
    /\ IsDigit(s[p]) /\ IsDigit(s[e])
    /\ \A k \in p..(e - 1) : ~(s[k] = "." /\ s[k + 1] = ".")
    /\ \A k \in p..(e - 3) : \E j \in k..(k + 3) : s[j] = "."

\* Neither neighbour of s[p..e] is a colon, a dot or a word character
Bounded(s, p, e) ==
    /\ p = 1 \/ ~Refused(s[p - 1])
    /\ e = Len(s) \/ ~Refused(s[e + 1])

Occurrences(s) ==
    {o \in (1..Len(s)) \X (1..Len(s)) :
        o[1] <= o[2] /\ IsQuad(s, o[1], o[2]) /\ Bounded(s, o[1], o[2])}

\* The token that stands for an address during this invocation
TokenOf(address) == <<"I","P","(">> \o IntToStr(PyHash(hashSeed, address)) \o <<")">>

\* s with its occurrences at or before position upto replaced by their tokens
RECURSIVE Replaced(_, _)
Replaced(s, upto) ==
    LET before == {o \in Occurrences(s) : o[2] <= upto}
    IN  IF before = {} THEN SubSeq(s, 1, upto)
        ELSE LET o == CHOOSE x \in before : \A y \in before : y[2] <= x[2]
             IN  Replaced(s, o[1] - 1) \o TokenOf(SubSeq(s, o[1], o[2]))
                     \o SubSeq(s, o[2] + 1, upto)

\* C10: after the anonymizer, whatever the log group, the message is the raw
\* message with every occurrence of a dotted quad replaced by IP(<hash of that
\* literal>), the same literal getting the same token in every record of the
\* invocation, and a message without an occurrence unchanged.
C10_Anonymizer ==
    /\ pc = "is_valid" =>
           /\ Carries(log, K_message,
                      StrVal(Replaced(RawMessage(idx), Len(RawMessage(idx)))))
           /\ Occurrences(RawMessage(idx)) = {} => log[K_message].v = RawMessage(idx)
    /\ Enriched /\ ~InLambdaLogGroup =>
           \A j \in DOMAIN shipper :
               shipper[j].op = "add" =>
                   shipper[j].log[K_message].v
                       = Replaced(RawMessage(j), Len(RawMessage(j)))

\* The second record of a batch carries the token the first one was shipped with
C10_Witness ==
    /\ pc = "is_valid" /\ idx = 2 /\ Len(shipper) = 1
    /\ shipper[1].log[K_message].v
           = <<"a"," ">> \o TokenOf(<<"1",".","2",".","3",".","4">>)
    /\ \E k \in 1..Len(log[K_message].v) :
           /\ k > 1
           /\ Slice(log[K_message].v, k - 1) = TokenOf(<<"1",".","2",".","3",".","4">>)

====
